---- MODULE Spec2Model ----
(***************************************************************************)
(* A model of the pulummi_code repository: the configuration defaults of   *)
(* config.py and hpa.py, the resource declarations and exports of          *)
(* __main__.py, the HPA functions of hpa.py, and the contract of the       *)
(* provisioning engine (graph builder, reconciliation, output exporter)    *)
(* that consumes the declarations.  The engine itself is not part of the   *)
(* repository; its definitions follow spec.md sections 4, 5 and 7.         *)
(***************************************************************************)
EXTENDS Integers, Sequences, FiniteSets, TLC

VARIABLES
    pc,         \* position of the program / phase of the run
    cfg,        \* the values the user supplied (<<>> = not supplied, <<v>> = v)
    eff,        \* the effective settings computed by config.py and hpa.py
    decl,       \* declared resources: logical name -> declaration record
    declOrder,  \* logical names in the order they were declared
    exported,   \* pulumi.export calls made: key -> <<node, attribute>>
    hpaResult,  \* what the last call of an hpa.py function returned
    order,      \* the apply order produced by the graph builder
    status,     \* per-node status in the current run
    observed,   \* Observed State: logical name -> <<>> or <<desired props>>
    calls,      \* provider create/update/delete calls of the current run
    outputs,    \* resolved outputs: key -> resolution result
    error,      \* the error that ended the run, "none" otherwise
    run,        \* number of the current reconciliation run
    runKind,    \* "up" or "destroy"
    cleanRestart  \* the run repeats a fully successful run with the same settings

vars == <<pc, cfg, eff, decl, declOrder, exported, hpaResult, order, status,
          observed, calls, outputs, error, run, runKind, cleanRestart>>

progVars == <<decl, declOrder, exported, hpaResult>>
engineVars == <<order, status, observed, calls, outputs, error, run, runKind,
                cleanRestart>>

\* ------------------------------------------------------------------ bounds
MaxInt == 1
MaxFailures == 2
MaxOrderFailures == 1
MaxWorkers == 2
MaxRuns == 2
MaxGraphNodes == 3

\* ------------------------------------------------- configuration (config.py)
None == <<>>
Some(v) == <<v>>

\* Python's `x or d` on an optional int: None and 0 are falsy.
OrInt(o, d) == IF o # None /\ o[1] # 0 THEN o[1] ELSE d

\* Python's `x or d` on an optional str: None and '' are falsy.
OrStr(o, d) == IF o # None /\ o[1] # "" THEN o[1] ELSE d

\* Python's `x or d` on an optional bool: None and False are falsy.
OrBool(o, d) == IF o # None /\ o[1] THEN o[1] ELSE d

\* Python's `x or d` on an optional list: None and [] are falsy.
OrList(o, d) == IF o # None /\ Len(o[1]) > 0 THEN o[1] ELSE d

DefaultNodeDesiredCount == 2
DefaultNodeMinCount == 1
DefaultNodeMaxCount == 4
DefaultHpaMinReplicas == 2
DefaultHpaMaxReplicas == 10
DefaultHpaCpuThreshold == 70
DefaultHpaMemoryThreshold == 80
DefaultDemoAppReplicas == 2
DefaultDemoAppPort == 80
DefaultAvailabilityZones == <<"us-east-1a", "us-east-1b">>

OptInts == {None} \cup {Some(i) : i \in 0..MaxInt}
OptStrs == {None, Some(""), Some("custom")}
OptBools == {None, Some(TRUE), Some(FALSE)}
Zones == {"us-east-1a", "us-east-1b"}
OptZoneLists == {None, Some(<<>>)} \cup {Some(<<a>>) : a \in Zones}
                  \cup {Some(<<a, b>>) : a \in Zones, b \in Zones}

NoConfig == [node_desired_count |-> None, node_min_count |-> None,
             hpa_min_replicas |-> None, demo_app_replicas |-> None,
             enable_hpa |-> None, vpc_name |-> None, demo_app_name |-> None,
             availability_zones |-> None]

\* nothing imported yet: neither config.py nor hpa.py has run
NoEff == [main |-> None, hpa |-> None]

\* config.py, executed on import by __main__.py
ConfigPy(c) ==
    [vpc_name |-> OrStr(c.vpc_name, "eks-vpc"),
     availability_zones |-> OrList(c.availability_zones, DefaultAvailabilityZones),
     node_desired_count |-> OrInt(c.node_desired_count, DefaultNodeDesiredCount),
     node_min_count |-> OrInt(c.node_min_count, DefaultNodeMinCount),
     node_max_count |-> OrInt(None, DefaultNodeMaxCount)]

\* hpa.py module level, executed on import of hpa
HpaPy(c) ==
    [enable_hpa |-> OrBool(c.enable_hpa, TRUE),
     hpa_min_replicas |-> OrInt(c.hpa_min_replicas, DefaultHpaMinReplicas),
     hpa_max_replicas |-> OrInt(None, DefaultHpaMaxReplicas),
     hpa_cpu_threshold |-> OrInt(None, DefaultHpaCpuThreshold),
     hpa_memory_threshold |-> OrInt(None, DefaultHpaMemoryThreshold),
     demo_app_name |-> OrStr(c.demo_app_name, "demo-app"),
     demo_app_replicas |-> OrInt(c.demo_app_replicas, DefaultDemoAppReplicas),
     demo_app_port |-> OrInt(None, DefaultDemoAppPort)]

\* ------------------------------------------- declarations (__main__.py)
MainOrder ==
    << "vpc", "igw", "public_subnet_1", "public_subnet_2", "private_subnet_1",
       "private_subnet_2", "eip_1", "eip_2", "nat_gateway_1", "nat_gateway_2",
       "public_route_table", "public_route_table_assoc_1", "public_route_table_assoc_2",
       "private_route_table_1", "private_route_table_2",
       "private_route_table_assoc_1", "private_route_table_assoc_2",
       "cluster_role", "cluster_role_policy_attachment",
       "cluster_role_vpc_policy_attachment", "node_role",
       "node_role_policy_attachment", "node_cni_policy_attachment",
       "node_registry_policy_attachment", "cluster_security_group",
       "node_security_group", "eks_cluster", "node_group" >>

HpaOrder == << "metrics_chart", "deployment", "service", "hpa" >>

Range(s) == {s[i] : i \in 1..Len(s)}
MainNodes == Range(MainOrder)
HpaNodes == Range(HpaOrder)
AllNodes == MainNodes \cup HpaNodes

\* properties of a declaration that the claims read; "-" where a kind has none
NoProps == [az |-> "-", public |-> FALSE, subnet |-> "-", alloc |-> "-",
            routes |-> <<>>, rt |-> "-"]

Resource(kind, refs, dependsOn, props) ==
    [kind |-> kind, refs |-> refs, dependsOn |-> dependsOn, props |-> props]

SubnetNoVpcMut(az, public) ==
    Resource("Subnet", {}, {}, [NoProps EXCEPT !.az = az, !.public = public])
SubnetStampMut(az, public) ==
    Resource("Subnet", {"vpc"}, {},
             [NoProps EXCEPT !.az = az, !.public = public,
                             !.alloc = IF run = 0 THEN "stamp-0" ELSE "stamp-1"])
Subnet(az, public) ==
    Resource("Subnet", {"vpc"}, {}, [NoProps EXCEPT !.az = az, !.public = public])

\* opts=pulumi.ResourceOptions(depends_on=[igw]) on both NAT gateways
NatDependsOnMut == {}
NatDependsOn == {"igw"}

NatGateway(subnet, eip) ==
    Resource("NatGateway", {subnet, eip}, NatDependsOn,
             [NoProps EXCEPT !.subnet = subnet, !.alloc = eip])

Route(via, target) == [cidr |-> "0.0.0.0/0", via |-> via, target |-> target]

RouteTable(via, target) ==
    Resource("RouteTable", {"vpc", target}, {},
             [NoProps EXCEPT !.routes = << Route(via, target) >>])

RouteTableAssociation(subnet, rt) ==
    Resource("RouteTableAssociation", {subnet, rt}, {},
             [NoProps EXCEPT !.subnet = subnet, !.rt = rt])

\* the NAT gateway each private route table routes 0.0.0.0/0 to
PrivateRouteNatMut(rt) == "nat_gateway_1"
PrivateRouteNat(rt) ==
    IF rt = "private_route_table_1" THEN "nat_gateway_1" ELSE "nat_gateway_2"

\* availability_zones[i] with Python's 0-based index i
AzIndex(n) ==
    IF n \in {"public_subnet_1", "private_subnet_1"} THEN 0 ELSE 1

\* the declaration statement of node n raises IndexError under settings e
RaisesIndexError(n, e) ==
    /\ n \in {"public_subnet_1", "public_subnet_2", "private_subnet_1", "private_subnet_2"}
    /\ AzIndex(n) + 1 > Len(e.availability_zones)

\* the resource declared by the statement of __main__.py that binds n
MainDecl(n, e) ==
    CASE n = "vpc" -> Resource("Vpc", {}, {}, NoProps)
      [] n = "igw" -> Resource("InternetGateway", {"vpc"}, {}, NoProps)
      [] n \in {"public_subnet_1", "public_subnet_2"} ->
            Subnet(e.availability_zones[AzIndex(n) + 1], TRUE)
      [] n \in {"private_subnet_1", "private_subnet_2"} ->
            Subnet(e.availability_zones[AzIndex(n) + 1], FALSE)
      [] n \in {"eip_1", "eip_2"} -> Resource("Eip", {}, {}, NoProps)
      [] n = "nat_gateway_1" -> NatGateway("public_subnet_1", "eip_1")
      [] n = "nat_gateway_2" -> NatGateway("public_subnet_2", "eip_2")
      [] n = "public_route_table" -> RouteTable("gateway_id", "igw")
      [] n = "public_route_table_assoc_1" ->
            RouteTableAssociation("public_subnet_1", "public_route_table")
      [] n = "public_route_table_assoc_2" ->
            RouteTableAssociation("public_subnet_2", "public_route_table")
      [] n \in {"private_route_table_1", "private_route_table_2"} ->
            RouteTable("nat_gateway_id", PrivateRouteNat(n))
      [] n = "private_route_table_assoc_1" ->
            RouteTableAssociation("private_subnet_1", "private_route_table_1")
      [] n = "private_route_table_assoc_2" ->
            RouteTableAssociation("private_subnet_2", "private_route_table_2")
      [] n \in {"cluster_role", "node_role"} -> Resource("Role", {}, {}, NoProps)
      [] n \in {"cluster_role_policy_attachment", "cluster_role_vpc_policy_attachment"} ->
            Resource("RolePolicyAttachment", {"cluster_role"}, {}, NoProps)
      [] n \in {"node_role_policy_attachment", "node_cni_policy_attachment",
                "node_registry_policy_attachment"} ->
            Resource("RolePolicyAttachment", {"node_role"}, {}, NoProps)
      [] n = "cluster_security_group" -> Resource("SecurityGroup", {"vpc"}, {}, NoProps)
      [] n = "node_security_group" ->
            Resource("SecurityGroup", {"vpc", "cluster_security_group"}, {}, NoProps)
      [] n = "eks_cluster" ->
            Resource("Cluster",
                     {"cluster_role", "public_subnet_1", "public_subnet_2",
                      "private_subnet_1", "private_subnet_2", "cluster_security_group"},
                     {}, NoProps)
      [] n = "node_group" ->
            Resource("NodeGroup",
                     {"eks_cluster", "node_role", "private_subnet_1", "private_subnet_2"},
                     {}, NoProps)

MainExportsMut ==
    [vpc_id |-> <<"vpc", "id">>,
     vpc_cidr |-> <<"vpc", "cidr_block">>,
     cluster_name |-> <<"eks_cluster", "name">>,
     cluster_endpoint |-> <<"node_group", "id">>,
     cluster_version |-> <<"eks_cluster", "version">>,
     cluster_arn |-> <<"eks_cluster", "arn">>,
     node_group_id |-> <<"node_group", "id">>,
     public_subnet_1_id |-> <<"public_subnet_1", "id">>,
     public_subnet_2_id |-> <<"public_subnet_2", "id">>,
     private_subnet_1_id |-> <<"private_subnet_1", "id">>,
     private_subnet_2_id |-> <<"private_subnet_2", "id">>]
\* the pulumi.export calls at the end of __main__.py: key -> <<node, attribute>>
MainExports ==
    [vpc_id |-> <<"vpc", "id">>,
     vpc_cidr |-> <<"vpc", "cidr_block">>,
     cluster_name |-> <<"eks_cluster", "name">>,
     cluster_endpoint |-> <<"eks_cluster", "endpoint">>,
     cluster_version |-> <<"eks_cluster", "version">>,
     cluster_arn |-> <<"eks_cluster", "arn">>,
     node_group_id |-> <<"node_group", "id">>,
     public_subnet_1_id |-> <<"public_subnet_1", "id">>,
     public_subnet_2_id |-> <<"public_subnet_2", "id">>,
     private_subnet_1_id |-> <<"private_subnet_1", "id">>,
     private_subnet_2_id |-> <<"private_subnet_2", "id">>]

\* every edge of a declaration: property references and explicit depends_on
DepsOf(r) == r.refs \cup r.dependsOn

\* ----------------------------------------------------- program actions
\* `from config import ...` at the top of __main__.py
LoadConfig ==
    /\ pc = "start"
    /\ eff' = [eff EXCEPT !.main = Some(ConfigPy(cfg))]
    /\ pc' = "declare"
    /\ UNCHANGED <<cfg, progVars, engineVars>>

\* number of resource statements of __main__.py executed so far
MainDone == Cardinality(DOMAIN decl \cap MainNodes)

\* the next resource statement of __main__.py, in program order
Declare ==
    /\ pc = "declare"
    /\ MainDone < Len(MainOrder)
    /\ LET n == MainOrder[MainDone + 1]
           e == eff.main[1]
       IN IF RaisesIndexError(n, e)
          THEN /\ pc' = "crashed"
               /\ error' = "IndexError"
               /\ UNCHANGED <<decl, declOrder>>
          ELSE /\ decl' = (n :> MainDecl(n, e)) @@ decl
               /\ declOrder' = Append(declOrder, n)
               /\ UNCHANGED <<pc, error>>
    /\ UNCHANGED <<cfg, eff, exported, hpaResult, order, status, observed, calls,
                   outputs, run, runKind, cleanRestart>>

\* the pulumi.export block that ends __main__.py
Export ==
    /\ pc = "declare"
    /\ MainDone = Len(MainOrder)
    /\ exported' = MainExports @@ exported
    /\ pc' = "declared"
    /\ UNCHANGED <<cfg, eff, decl, declOrder, hpaResult, engineVars>>

\* ------------------------------------------------------ hpa.py functions
\* the program text is still being executed (no reconciliation started yet)
\* (an hpa.py function is called before or after the resource statements of
\* __main__.py, which Python executes as one uninterrupted sequence)
ProgramPhase == pc \in {"start", "declared"}

NoResult == [fn |-> "none", ret |-> None]
EmptyDict == <<>>

\* `import hpa`: the module-level assignments of hpa.py
ImportHpa ==
    /\ ProgramPhase
    /\ eff.hpa = None
    /\ eff' = [eff EXCEPT !.hpa = Some(HpaPy(cfg))]
    /\ UNCHANGED <<pc, cfg, progVars, engineVars>>

MetricsChart == Resource("Chart", {}, {}, NoProps)
DemoDeployment == Resource("Deployment", {}, {}, NoProps)
DemoService == Resource("Service", {}, {}, NoProps)
\* scale_target_ref reads deployment.metadata['name']; depends_on=[deployment]
HpaDependsOn == {"deployment"}
Hpa == Resource("HorizontalPodAutoscaler", {"deployment"}, HpaDependsOn, NoProps)

\* what create_metrics_server declares and exports under settings h
MetricsServerDecl(h) ==
    IF h.enable_hpa THEN <<"metrics_chart">> ELSE <<>>
MetricsServerExports(h) ==
    IF h.enable_hpa THEN [metrics_server_chart |-> <<"metrics_chart", "id">>]
    ELSE EmptyDict

\* what create_hpa declares under settings h
CreateHpaDecl(h) ==
    IF ~h.enable_hpa THEN <<>> ELSE <<"hpa">>

HpaDeclOf(n) ==
    CASE n = "metrics_chart" -> MetricsChart
      [] n = "deployment" -> DemoDeployment
      [] n = "service" -> DemoService
      [] n = "hpa" -> Hpa

\* the nodes setup_hpa_infrastructure declares, in order
SetupDecl(h) ==
    IF ~h.enable_hpa THEN <<>>
    ELSE MetricsServerDecl(h) \o <<"deployment", "service">> \o CreateHpaDecl(h)

\* the mapping setup_hpa_infrastructure returns
SetupReturn(h) ==
    IF ~h.enable_hpa THEN EmptyDict
    ELSE [deployment_name |-> <<"deployment", "metadata.name">>,
          service_name |-> <<"service", "metadata.name">>,
          hpa_name |-> <<"hpa", "metadata.name">>,
          hpa_min_replicas |-> h.hpa_min_replicas,
          hpa_max_replicas |-> h.hpa_max_replicas,
          hpa_cpu_threshold |-> h.hpa_cpu_threshold,
          hpa_memory_threshold |-> h.hpa_memory_threshold]

\* register the nodes of sequence ns (each a node of hpa.py)
DeclareAll(ns) ==
    /\ decl' = [n \in Range(ns) |-> HpaDeclOf(n)] @@ decl
    /\ declOrder' = declOrder \o ns

\* a logical name is registered once: a second registration is rejected by the
\* engine (duplicate resource), so each function is called while its names are free
Fresh(ns) == Range(ns) \cap DOMAIN decl = {}

CreateMetricsServer ==
    /\ ProgramPhase /\ eff.hpa # None
    /\ Fresh(<<"metrics_chart">>)
    /\ LET h == eff.hpa[1]
       IN /\ DeclareAll(MetricsServerDecl(h))
          /\ exported' = MetricsServerExports(h) @@ exported
    /\ hpaResult' = [fn |-> "create_metrics_server", ret |-> None]
    /\ UNCHANGED <<pc, cfg, eff, engineVars>>

CreateDemoDeployment ==
    /\ ProgramPhase /\ eff.hpa # None
    /\ Fresh(<<"deployment">>)
    /\ DeclareAll(<<"deployment">>)
    /\ hpaResult' = [fn |-> "create_demo_deployment", ret |-> Some("deployment")]
    /\ UNCHANGED <<pc, cfg, eff, exported, engineVars>>

CreateDemoService ==
    /\ ProgramPhase /\ eff.hpa # None
    /\ Fresh(<<"service">>)
    /\ DeclareAll(<<"service">>)
    /\ hpaResult' = [fn |-> "create_demo_service", ret |-> Some("service")]
    /\ UNCHANGED <<pc, cfg, eff, exported, engineVars>>

\* create_hpa(deployment, provider) on a deployment declared before
CreateHpa ==
    /\ ProgramPhase /\ eff.hpa # None
    /\ "deployment" \in DOMAIN decl
    /\ Fresh(<<"hpa">>)
    /\ LET h == eff.hpa[1]
       IN /\ DeclareAll(CreateHpaDecl(h))
          /\ hpaResult' = [fn |-> "create_hpa",
                           ret |-> IF ~h.enable_hpa THEN None ELSE Some("hpa")]
    /\ UNCHANGED <<pc, cfg, eff, exported, engineVars>>

SetupHpaInfrastructure ==
    /\ ProgramPhase /\ eff.hpa # None
    /\ Fresh(HpaOrder)
    /\ LET h == eff.hpa[1]
       IN /\ DeclareAll(SetupDecl(h))
          /\ exported' = (IF ~h.enable_hpa THEN EmptyDict ELSE MetricsServerExports(h))
                            @@ exported
          /\ hpaResult' = [fn |-> "setup_hpa_infrastructure", ret |-> Some(SetupReturn(h))]
    /\ UNCHANGED <<pc, cfg, eff, engineVars>>

\* ------------------------------------------------------- initial states
NoStatus == [n \in {} |-> "pending"]

SynthNames == <<"n1", "n2", "n3", "n4", "n5">>
SynthNodes(k) == {SynthNames[i] : i \in 1..k}

\* nothing reconciled yet; settings c, declarations d in the order o
InitFrom(c, p, d, o) ==
    /\ pc = p
    /\ cfg = c
    /\ eff = NoEff
    /\ decl = d
    /\ declOrder = o
    /\ exported = EmptyDict
    /\ hpaResult = NoResult
    /\ order = <<>>
    /\ status = NoStatus
    /\ observed = [n \in AllNodes \cup Range(SynthNames) |-> None]
    /\ calls = {}
    /\ outputs = EmptyDict
    /\ error = "none"
    /\ run = 0
    /\ runKind = "up"
    /\ cleanRestart = FALSE

InitWith(c) == InitFrom(c, "start", [n \in {} |-> 0], <<>>)

\* settings of the integer, boolean and string options
ConfigInputs ==
    {[NoConfig EXCEPT !.node_desired_count = a, !.node_min_count = b,
                      !.hpa_min_replicas = c, !.demo_app_replicas = d,
                      !.enable_hpa = e, !.vpc_name = f, !.demo_app_name = g] :
        a \in OptInts, b \in OptInts, c \in OptInts, d \in OptInts,
        e \in OptBools, f \in OptStrs, g \in OptStrs}

\* settings of the zone list and the HPA flag
ProgramInputs ==
    {[NoConfig EXCEPT !.availability_zones = z, !.enable_hpa = e] :
        z \in OptZoneLists, e \in OptBools}

InitConfig == \E c \in ConfigInputs : InitWith(c)
InitProgram == \E c \in ProgramInputs : InitWith(c)

HpaCalls ==
    \/ ImportHpa
    \/ CreateMetricsServer
    \/ CreateDemoDeployment
    \/ CreateDemoService
    \/ CreateHpa
    \/ SetupHpaInfrastructure

NextConfig == LoadConfig \/ HpaCalls
NextProgram == LoadConfig \/ Declare \/ Export \/ HpaCalls

\* configuration loading and the hpa.py functions, over all modelled settings
SpecConfig == InitConfig /\ [][NextConfig]_vars
\* the whole program text, over zone lists and the HPA flag
SpecProgram == InitProgram /\ [][NextProgram]_vars

\* --------------------------------- dependency graph builder (spec.md 4.1)
Nodes == DOMAIN decl
Deps(n) == DepsOf(decl[n])

\* a property reference that resolves to no node of the declaration set
Dangling == \E n \in Nodes : ~(Deps(n) \subseteq Nodes)

InDegree == [n \in Nodes |-> Cardinality(Deps(n))]

\* the nodes whose last unmet dependency was n, in declaration order
KahnFreedMut(n, indeg) ==
    SelectSeq(declOrder, LAMBDA m : n \in Deps(m) /\ indeg[m] \in {0, 1})
KahnFreed(n, indeg) ==
    SelectSeq(declOrder, LAMBDA m : n \in Deps(m) /\ indeg[m] = 0)

\* Kahn's algorithm: drain the queue of in-degree-zero nodes
RECURSIVE Kahn(_, _, _)
Kahn(queue, ord, indeg) ==
    IF queue = <<>> THEN ord
    ELSE LET n == Head(queue)
             next == [m \in Nodes |-> IF n \in Deps(m) THEN indeg[m] - 1 ELSE indeg[m]]
         IN Kahn(Tail(queue) \o KahnFreed(n, next), Append(ord, n), next)

ApplyOrder == Kahn(SelectSeq(declOrder, LAMBDA m : InDegree[m] = 0), <<>>, InDegree)

\* a node is left unvisited once all in-degree-zero nodes are drained
CycleDetectedMut(ord) == FALSE
CycleDetected(ord) == Len(ord) < Cardinality(Nodes)

\* graph build, then the start of an "up" run over the built graph
BuildGraph ==
    /\ pc = "declared"
    /\ IF Dangling \/ CycleDetected(ApplyOrder)
       THEN /\ pc' = "aborted"
            /\ error' = IF Dangling THEN "DanglingReferenceError"
                        ELSE "CyclicDependencyError"
            /\ UNCHANGED <<order, status, run, calls, outputs>>
       ELSE /\ pc' = "apply"
            /\ order' = ApplyOrder
            /\ status' = [n \in Nodes |-> "pending"]
            /\ run' = run + 1
            /\ calls' = {}
            /\ outputs' = EmptyDict
            /\ error' = "none"
    /\ runKind' = "up"
    /\ UNCHANGED <<cfg, eff, progVars, observed, cleanRestart>>

\* ------------------------------- reconciliation engine (spec.md 4.2, 5, 7)
Success == {"created", "updated", "unchanged"}
Terminal == Success \cup {"deleted", "failed", "skipped"}
InRun == DOMAIN status
Running == {n \in InRun : status[n] = "running"}
FailedNodes == {n \in InRun : status[n] = "failed"}
Present(n) == observed[n] # None

\* the desired properties of n with its references resolved to physical ids
Resolved(n) ==
    [decl |-> decl[n], inputs |-> [d \in Deps(n) |-> observed[d][1].id]]

\* the properties whose change forces a replace, per resource kind
ForceReplace(kind) == IF kind = "Subnet" THEN {"az"} ELSE {}

\* the diff of a node against Observed State
Diff(n) ==
    IF ~Present(n) THEN "create"
    ELSE IF observed[n][1].res = Resolved(n) THEN "no-op"
    ELSE IF \E q \in ForceReplace(decl[n].kind) :
                observed[n][1].res.decl.props[q] # decl[n].props[q] THEN "replace"
    ELSE "update"

Dependents(n) == {m \in InRun : n \in Deps(m)}

\* every dependency edge of n is satisfied
Ready(n) ==
    /\ status[n] = "pending"
    /\ IF runKind = "up" THEN \A d \in Deps(n) : status[d] \in Success
       ELSE \A m \in Dependents(n) : status[m] = "deleted"

\* a node n waits for has failed or was skipped
Blocked(n) ==
    /\ status[n] = "pending"
    /\ IF runKind = "up" THEN \E d \in Deps(n) : status[d] \in {"failed", "skipped"}
       ELSE \E m \in Dependents(n) : status[m] \in {"failed", "skipped"}

Reverse(s) == [i \in 1..Len(s) |-> s[Len(s) + 1 - i]]

\* the walk: apply order for create/update, its reverse for delete
WalkOrder == IF runKind = "up" THEN order ELSE Reverse(order)
Eligible == SelectSeq(WalkOrder, LAMBDA n : n \in InRun /\ Ready(n))
ToSkip == SelectSeq(WalkOrder, LAMBDA n : n \in InRun /\ Blocked(n))

\* the provider call in flight for n
OpOf(n) == CHOOSE c \in calls : c[2] = n

\* The engine marks and dispatches eagerly: a provider call returns only once
\* every node that can be skipped is skipped and every free worker that can be
\* given a node has one.
CanSkip == ToSkip # <<>>
CanStart == ~CanSkip /\ Cardinality(Running) < MaxWorkers /\ Eligible # <<>>
Idle == pc = "draining" \/ (~CanSkip /\ ~CanStart)

\* a free worker takes the next eligible node of the walk and issues its call
Start ==
    /\ pc = "apply"
    /\ CanStart
    /\ LET n == Head(Eligible)
           op == IF runKind = "up" THEN Diff(n) ELSE "delete"
       IN IF op = "no-op"
          THEN /\ status' = [status EXCEPT ![n] = "unchanged"]
               /\ UNCHANGED calls
          ELSE /\ status' = [status EXCEPT ![n] = "running"]
               /\ calls' = calls \cup {<<op, n>>}
    /\ UNCHANGED <<pc, cfg, eff, progVars, order, observed, outputs, error, run,
                   runKind, cleanRestart>>

\* a dependent of a failed or skipped node is marked skipped
Skip ==
    /\ pc = "apply"
    /\ CanSkip
    /\ status' = [status EXCEPT ![Head(ToSkip)] = "skipped"]
    /\ UNCHANGED <<pc, cfg, eff, progVars, order, observed, calls, outputs, error,
                   run, runKind, cleanRestart>>

\* the provider call of n returns successfully; the node's state is written
Succeed(n) ==
    /\ pc \in {"apply", "draining"}
    /\ Idle
    /\ n \in Running
    /\ LET op == OpOf(n)[1]
       IN CASE op \in {"create", "replace"} ->
                 /\ status' = [status EXCEPT ![n] = "created"]
                 /\ observed' = [observed EXCEPT
                                   ![n] = Some([res |-> Resolved(n), id |-> <<n, run>>])]
            [] op = "update" ->
                 /\ status' = [status EXCEPT ![n] = "updated"]
                 /\ observed' = [observed EXCEPT
                                   ![n] = Some([res |-> Resolved(n),
                                                id |-> observed[n][1].id])]
            [] op = "delete" ->
                 /\ status' = [status EXCEPT ![n] = "deleted"]
                 /\ observed' = [observed EXCEPT ![n] = None]
    /\ UNCHANGED <<pc, cfg, eff, progVars, order, calls, outputs, error, run,
                   runKind, cleanRestart>>

\* the provider call of n fails permanently: the node is failed, nothing is written
Fail(n) ==
    /\ pc \in {"apply", "draining"}
    /\ Idle
    /\ n \in Running
    /\ Cardinality(FailedNodes) < MaxFailures
    /\ status' = [status EXCEPT ![n] = "failed"]
    /\ UNCHANGED <<pc, cfg, eff, progVars, order, observed, calls, outputs, error,
                   run, runKind, cleanRestart>>

\* ------------------------------------------ output exporter (spec.md 4.4)
Resolve(k) ==
    LET src == exported[k][1]
    IN IF src \in InRun /\ status[src] \in Success
       THEN [key |-> k, err |-> "none", val |-> <<observed[src][1].id, exported[k][2]>>]
       ELSE [key |-> k, err |-> "UnresolvedOutputError", val |-> <<>>]

\* the run is over: every declared output is resolved
Finish ==
    /\ \/ pc = "apply" /\ \A n \in InRun : status[n] \in Terminal
       \/ pc = "draining" /\ Running = {}
    /\ outputs' = IF runKind = "up" THEN [k \in DOMAIN exported |-> Resolve(k)]
                  ELSE EmptyDict
    /\ error' = IF runKind = "up" /\ \E k \in DOMAIN exported : Resolve(k).err # "none"
                THEN "UnresolvedOutputError" ELSE "none"
    /\ pc' = IF pc = "draining" THEN "cancelled" ELSE "done"
    /\ UNCHANGED <<cfg, eff, progVars, order, status, observed, calls, run, runKind,
                   cleanRestart>>

\* a user-requested abort: no new node is scheduled, calls in flight finish
Cancel ==
    /\ pc = "apply"
    /\ runKind = "up"
    /\ pc' = "draining"
    /\ UNCHANGED <<cfg, eff, progVars, engineVars>>

\* ------------------------------------------------------------ later runs
\* the declarations the program yields when run again under settings c
DeclaredUnder(c, ns) ==
    [n \in ns |-> IF n \in MainNodes THEN MainDecl(n, ConfigPy(c)) ELSE HpaDeclOf(n)]

RunConfigs ==
    {NoConfig,
     [NoConfig EXCEPT !.availability_zones = Some(<<"us-east-1b", "us-east-1a">>)]}

\* the program is run again (`up`), with the same or with changed settings
Rerun(c) ==
    /\ pc = "done"
    /\ run < MaxRuns
    /\ cfg' = c
    /\ eff' = [main |-> Some(ConfigPy(c)),
               hpa |-> IF eff.hpa = None THEN None ELSE Some(HpaPy(c))]
    /\ decl' = DeclaredUnder(c, Nodes)
    /\ cleanRestart' = (/\ c = cfg
                        /\ runKind = "up"
                        /\ \A n \in InRun : status[n] \in Success)
    /\ pc' = "declared"
    /\ UNCHANGED <<declOrder, exported, hpaResult, order, status, observed, calls,
                   outputs, error, run, runKind>>

\* `destroy`: every node of Observed State is deleted
Destroy ==
    /\ pc = "done"
    /\ run < MaxRuns
    /\ runKind' = "destroy"
    /\ run' = run + 1
    /\ status' = [n \in {m \in Nodes : Present(m)} |-> "pending"]
    /\ calls' = {}
    /\ outputs' = EmptyDict
    /\ cleanRestart' = FALSE
    /\ pc' = "apply"
    /\ UNCHANGED <<cfg, eff, progVars, order, observed, error>>

\* ------------------------------------------------------- specifications
\* __main__.py as written: it never imports hpa.py
MainProgram ==
    \/ LoadConfig
    \/ Declare
    \/ Export

\* every provider call returns successfully
EngineOk ==
    \/ BuildGraph
    \/ Start
    \/ \E n \in Running : Succeed(n)
    \/ Finish

Init == InitWith(NoConfig)
Next ==
    \/ MainProgram
    \/ EngineOk
    \/ Skip
    \/ \E n \in Running : Fail(n)
    \/ Cancel
\* the program as written and one run of the engine over its declarations
Spec == Init /\ [][Next]_vars

NextRuns ==
    \/ MainProgram
    \/ (pc = "declared" /\ run = 0 /\ ImportHpa)
    \/ (pc = "declared" /\ run = 0 /\ SetupHpaInfrastructure)
    \/ EngineOk
    \/ \E c \in RunConfigs : Rerun(c)
    \/ Destroy
\* successive runs (up, up again, destroy) over the same Observed State, with or
\* without the HPA resources of hpa.py (a later run executes the same program
\* text as the first); every provider call succeeds
SpecRuns == Init /\ [][NextRuns]_vars

NextOrder ==
    \/ MainProgram
    \/ (pc = "declared" /\ ImportHpa)
    \/ (pc = "declared" /\ SetupHpaInfrastructure)
    \/ EngineOk
    \/ Skip
    \/ \E n \in Running :
          runKind = "up" /\ Cardinality(FailedNodes) < MaxOrderFailures /\ Fail(n)
    \/ Destroy
\* an `up` run in which provider calls may fail (MaxOrderFailures of them), then
\* a `destroy` run, with or without the HPA resources of hpa.py
SpecOrder == Init /\ [][NextOrder]_vars

\* a declaration set of k nodes in which every reference resolves
InitSynthetic ==
    \E k \in 1..MaxGraphNodes : \E r \in [SynthNodes(k) -> SUBSET SynthNodes(k)] :
        InitFrom(NoConfig, "declared",
                 [n \in SynthNodes(k) |-> Resource("Synthetic", r[n], {}, NoProps)],
                 SubSeq(SynthNames, 1, k))

InitGraph == InitSynthetic \/ Init
NextGraph == MainProgram \/ EngineOk
\* graph build and one run, over every small declaration set and the program's
SpecGraph == InitGraph /\ [][NextGraph]_vars

\* ================================================================= claims
\* ---------------------------------------------- helpers of the formulas
Declared(n) == n \in DOMAIN decl
PrivateSubnets == {n \in DOMAIN decl : decl[n].kind = "Subnet" /\ ~decl[n].props.public}
NatRoutes(n) ==
    {i \in 1..Len(decl[n].props.routes) : decl[n].props.routes[i].via = "nat_gateway_id"}
PrivateRouteTables ==
    {n \in DOMAIN decl : decl[n].kind = "RouteTable" /\ NatRoutes(n) # {}}
AssociationsOf(s) ==
    {a \in DOMAIN decl : decl[a].kind = "RouteTableAssociation" /\ decl[a].props.subnet = s}
\* the NAT gateways a subnet reaches through its route-table associations
NatsOf(s) ==
    {decl[decl[a].props.rt].props.routes[i].target :
        a \in AssociationsOf(s), i \in 1..1}
\* every node reachable from the nodes of set by dependency edges
RECURSIVE ReachFrom(_)
ReachFrom(set) ==
    LET more == set \cup UNION {decl[m].refs \cup decl[m].dependsOn : m \in set}
    IN IF more = set THEN set ELSE ReachFrom(more)
\* the nodes n depends on, directly or transitively
Ancestors(n) == ReachFrom(decl[n].refs \cup decl[n].dependsOn)
HasCycle == \E n \in DOMAIN decl : n \in Ancestors(n)
\* position of n in the apply order (0 when absent)
Pos(n) ==
    IF \E i \in 1..Len(order) : order[i] = n
    THEN CHOOSE i \in 1..Len(order) : order[i] = n ELSE 0
\* a provider create/update call was issued for n in this run
Attempted(n) == n \in InRun /\ status[n] \in {"running", "created", "updated", "failed"}
Deleting(n) == n \in InRun /\ status[n] \in {"running", "deleted"}
Built == pc \in {"apply", "draining", "done", "cancelled", "aborted"}
HpaKeys == {"deployment_name", "service_name", "hpa_name", "hpa_min_replicas",
            "hpa_max_replicas", "hpa_cpu_threshold", "hpa_memory_threshold"}

\* C5: once __main__.py has run, there are exactly two private route tables, each
\* with the single route 0.0.0.0/0 to a NAT gateway, and every private subnet has
\* one association whose route table leads to a NAT gateway that sits in a public
\* subnet of the private subnet's own availability zone.
C5_RoutePairingByZone ==
    pc = "declared" =>
        /\ Cardinality(PrivateRouteTables) = 2
        /\ \A t \in PrivateRouteTables :
              /\ Len(decl[t].props.routes) = 1
              /\ decl[t].props.routes[1].cidr = "0.0.0.0/0"
              /\ decl[decl[t].props.routes[1].target].kind = "NatGateway"
        /\ Cardinality(PrivateSubnets) = 2
        /\ \A s \in PrivateSubnets :
              /\ Cardinality(AssociationsOf(s)) = 1
              /\ \A g \in NatsOf(s) :
                    /\ decl[g].kind = "NatGateway"
                    /\ decl[decl[g].props.subnet].props.public
                    /\ decl[decl[g].props.subnet].props.az = decl[s].props.az

\* C5 witness: the program ran to its end with the two zones supplied in the
\* order opposite to the default, so the two private subnets sit in different zones.
C5_Witness ==
    /\ pc = "declared"
    /\ cfg.availability_zones = Some(<<"us-east-1b", "us-east-1a">>)
    /\ decl["private_subnet_1"].props.az = "us-east-1b"
    /\ decl["private_subnet_2"].props.az = "us-east-1a"
    /\ decl["private_route_table_2"].props.routes[1].target = "nat_gateway_2"

\* C8: at the end of the program the exported keys cover the network, cluster and
\* node-group outputs and, when the autoscaling demo is enabled, the seven keys of
\* the mapping setup_hpa_infrastructure returns.
C8_ExportsCoverHpa ==
    pc = "declared" =>
        /\ DOMAIN MainExports \subseteq DOMAIN exported
        /\ (cfg.enable_hpa # Some(FALSE) => HpaKeys \subseteq DOMAIN exported)

\* C9: with enable_hpa supplied as false, setup_hpa_infrastructure declares no
\* resource and returns an empty mapping, create_hpa returns no HPA, and an HPA
\* is declared only when the option is true or not supplied.
C9_DisabledDeclaresNothing ==
    /\ (cfg.enable_hpa = Some(FALSE) /\ hpaResult.fn = "setup_hpa_infrastructure") =>
          /\ DOMAIN hpaResult.ret[1] = {}
          /\ HpaNodes \cap DOMAIN decl = {}
    /\ (cfg.enable_hpa = Some(FALSE) /\ hpaResult.fn = "create_hpa") =>
          hpaResult.ret = None
    /\ Declared("hpa") => cfg.enable_hpa \in {None, Some(TRUE)}

\* C10: every option takes its default exactly when no value is supplied, and
\* takes the supplied value, unchanged, otherwise.
C10_DefaultOnlyWhenAbsent ==
    /\ eff.main # None =>
          LET m == eff.main[1]
          IN /\ m.node_desired_count =
                   (IF cfg.node_desired_count = None THEN DefaultNodeDesiredCount
                    ELSE cfg.node_desired_count[1])
             /\ m.node_min_count =
                   (IF cfg.node_min_count = None THEN DefaultNodeMinCount
                    ELSE cfg.node_min_count[1])
             /\ m.vpc_name =
                   (IF cfg.vpc_name = None THEN "eks-vpc" ELSE cfg.vpc_name[1])
    /\ eff.hpa # None =>
          LET h == eff.hpa[1]
          IN /\ h.hpa_min_replicas =
                   (IF cfg.hpa_min_replicas = None THEN DefaultHpaMinReplicas
                    ELSE cfg.hpa_min_replicas[1])
             /\ h.demo_app_replicas =
                   (IF cfg.demo_app_replicas = None THEN DefaultDemoAppReplicas
                    ELSE cfg.demo_app_replicas[1])
             /\ h.enable_hpa =
                   (IF cfg.enable_hpa = None THEN TRUE ELSE cfg.enable_hpa[1])
             /\ h.demo_app_name =
                   (IF cfg.demo_app_name = None THEN "demo-app" ELSE cfg.demo_app_name[1])

\* C1: in an `up` run no create/update call is issued for a node before each node
\* it depends on (by reference or depends_on) is in a successful terminal state;
\* in particular a NAT gateway waits for the internet gateway, its public subnet
\* and its elastic IP, and the HPA for the demo deployment.  In a `destroy` run a
\* node is deleted only after every node that depends on it is deleted.
C1_DependencyOrder ==
    pc \in {"apply", "done"} =>
        IF runKind = "up"
        THEN /\ \A n \in InRun : Attempted(n) =>
                    \A d \in decl[n].refs \cup decl[n].dependsOn : status[d] \in Success
             /\ Attempted("nat_gateway_1") =>
                    \A d \in {"igw", "public_subnet_1", "eip_1"} : status[d] \in Success
             /\ Attempted("nat_gateway_2") =>
                    \A d \in {"igw", "public_subnet_2", "eip_2"} : status[d] \in Success
             /\ Attempted("hpa") => status["deployment"] \in Success
        ELSE /\ \A n \in InRun : Deleting(n) =>
                    \A m \in InRun :
                        n \in decl[m].refs \cup decl[m].dependsOn => status[m] = "deleted"
             /\ Deleting("igw") =>
                    \A g \in {"nat_gateway_1", "nat_gateway_2"} \cap InRun :
                        status[g] = "deleted"
             /\ Deleting("deployment") =>
                    \A g \in {"hpa"} \cap InRun : status[g] = "deleted"

\* C1 witness: a destroy run that followed an up run with the HPA resources has
\* deleted the internet gateway, both NAT gateways, the HPA and the deployment.
C1_Witness ==
    /\ runKind = "destroy"
    /\ pc = "done"
    /\ \A n \in {"igw", "nat_gateway_1", "nat_gateway_2", "hpa", "deployment"} :
          n \in InRun /\ status[n] = "deleted"

\* C2: when a run ends, every node that depends, directly or transitively, on a
\* failed node is skipped and was never applied; every node with no path to a
\* failed node is in its normal terminal state and present in Observed State;
\* nothing was deleted.  If the VPC failed, the subnets, gateways, security groups,
\* cluster and node group are skipped while the roles, attachments and EIPs completed
\* (each of them that did not fail itself and depends on no failed node).
C2_FailureIsolation ==
    pc = "done" =>
        /\ \A b \in InRun : Ancestors(b) \cap FailedNodes # {} =>
              /\ status[b] = "skipped"
              /\ ~Present(b)
              /\ \A c \in calls : c[2] # b
        /\ \A c \in InRun : (c \notin FailedNodes /\ Ancestors(c) \cap FailedNodes = {}) =>
              status[c] \in Success /\ Present(c)
        /\ \A c \in calls : c[1] # "delete"
        /\ status["vpc"] = "failed" =>
              /\ \A b \in {"igw", "public_subnet_1", "public_subnet_2", "private_subnet_1",
                           "private_subnet_2", "nat_gateway_1", "nat_gateway_2",
                           "cluster_security_group", "node_security_group",
                           "eks_cluster", "node_group"} : status[b] = "skipped"
              /\ \A c \in {"cluster_role", "node_role", "cluster_role_policy_attachment",
                           "cluster_role_vpc_policy_attachment",
                           "node_role_policy_attachment", "node_cni_policy_attachment",
                           "node_registry_policy_attachment", "eip_1", "eip_2"} :
                    \/ status[c] = "created"
                    \/ c \in FailedNodes
                    \/ Ancestors(c) \cap FailedNodes # {}

\* C2 witness: a run ended in which the VPC failed.
C2_Witness ==
    /\ pc = "done"
    /\ status["vpc"] = "failed"
    /\ status["node_group"] = "skipped"
    /\ status["eip_2"] = "created"

\* the node and attribute each export of __main__.py is expected to come from
C6_Source ==
    [vpc_id |-> <<"vpc", "id">>,
     vpc_cidr |-> <<"vpc", "cidr_block">>,
     cluster_name |-> <<"eks_cluster", "name">>,
     cluster_endpoint |-> <<"eks_cluster", "endpoint">>,
     cluster_version |-> <<"eks_cluster", "version">>,
     cluster_arn |-> <<"eks_cluster", "arn">>,
     node_group_id |-> <<"node_group", "id">>,
     public_subnet_1_id |-> <<"public_subnet_1", "id">>,
     public_subnet_2_id |-> <<"public_subnet_2", "id">>,
     private_subnet_1_id |-> <<"private_subnet_1", "id">>,
     private_subnet_2_id |-> <<"private_subnet_2", "id">>]

\* C6: when outputs are resolved, an export whose source node is not in a
\* successful terminal state (still pending, failed or skipped) resolves to
\* UnresolvedOutputError, and an export whose source node succeeded resolves to
\* the attribute the provider reported for that node.
C6_OutputResolution ==
    pc \in {"done", "cancelled"} =>
        /\ DOMAIN outputs = DOMAIN C6_Source
        /\ \A k \in DOMAIN C6_Source :
              LET src == C6_Source[k][1]
              IN IF status[src] \in Success
                 THEN /\ outputs[k].err = "none"
                      /\ outputs[k].val = <<observed[src][1].id, C6_Source[k][2]>>
                 ELSE /\ outputs[k].err = "UnresolvedOutputError"
                      /\ error = "UnresolvedOutputError"

\* C6 witness: the run was aborted before the cluster was created; the cluster
\* endpoint is unresolved while the VPC id is resolved.
C6_Witness ==
    /\ pc = "cancelled"
    /\ status["eks_cluster"] = "pending"
    /\ outputs["cluster_endpoint"].err = "UnresolvedOutputError"
    /\ outputs["vpc_id"].err = "none"
    /\ outputs["vpc_id"].val = <<observed["vpc"][1].id, "id">>

\* C7: an `up` run that repeats a fully successful run under the same settings
\* issues no provider create, update or delete call and ends with every node unchanged.
C7_Idempotent ==
    (cleanRestart /\ runKind = "up" /\ pc \in {"apply", "done"}) =>
        /\ calls = {}
        /\ \A n \in InRun : status[n] \in {"pending", "unchanged"}
        /\ pc = "done" => \A n \in InRun : status[n] = "unchanged"

\* C7 witness: the second run over a matching Observed State is over.
C7_Witness ==
    /\ cleanRestart
    /\ runKind = "up"
    /\ pc = "done"
    /\ run = 2
    /\ InRun = MainNodes \cup HpaNodes
    /\ \A n \in InRun : status[n] = "unchanged"

\* C3: for a declaration set without a cycle, and for the set of __main__.py, the
\* graph build succeeds with an apply order that holds every node exactly once
\* and every dependency before the node that depends on it.
C3_TopologicalOrder ==
    Built =>
        /\ (~HasCycle \/ DOMAIN decl = MainNodes) =>
              /\ pc # "aborted"
              /\ Len(order) = Cardinality(DOMAIN decl)
              /\ Range(order) = DOMAIN decl
              /\ \A n \in DOMAIN decl :
                    \A d \in decl[n].refs \cup decl[n].dependsOn : Pos(d) < Pos(n)

\* C3 witness: three nodes declared in the order opposite to their dependencies.
C3_Witness ==
    /\ pc = "apply"
    /\ decl["n1"].refs = {"n2"}
    /\ decl["n2"].refs = {"n3"}
    /\ order = <<"n3", "n2", "n1">>

\* C4: for a declaration set with a reference cycle, graph build fails with
\* CyclicDependencyError; no provider call is made and Observed State is unchanged.
C4_CycleRejected ==
    (Built /\ HasCycle) =>
        /\ pc = "aborted"
        /\ error = "CyclicDependencyError"
        /\ calls = {}
        /\ status = NoStatus
        /\ \A n \in DOMAIN observed : observed[n] = None

\* C4 witness: the build of a three-node cycle was rejected.
C4_Witness ==
    /\ pc = "aborted"
    /\ decl["n1"].refs = {"n2"}
    /\ decl["n2"].refs = {"n3"}
    /\ decl["n3"].refs = {"n1"}
    /\ error = "CyclicDependencyError"

====
